---- MODULE Spec2Model ----
(***************************************************************************)
(* PathConsensus (MergePaths/PathConsensus.cpp): resolution of ambiguous   *)
(* gaps in contig paths.  Sequences are modelled as TLA+ sequences of      *)
(* one-character strings, contig nodes as records, paths as sequences of   *)
(* nodes.                                                                  *)
(***************************************************************************)
EXTENDS Integers, Sequences, FiniteSets, TLC

VARIABLES
    pc,            \* position of main(): "read", "resolve", "output", "rewrite", "graph", "done", "abort"
    opt_numBranches, \* opt::numBranches (option -a)
    opt_identity,  \* opt::identity (option -p) as a fraction [num, den]
    inFile,        \* the records of the PATH file not yet read
    paths,         \* ContigPaths paths (main / readPath)
    isAmbPath,     \* vector<bool> isAmbPath
    g_ambpath_contig, \* AmbPath2Contig: constraint -> ContigPath
    ambIt,         \* number of registry entries the resolution loop has passed
    stats,         \* the six counters of struct stats
    seen,          \* vector<bool> seen
    fa,            \* consensus sequence records written to the FASTA output
    out,           \* lines written to the path output
    g_newVertices, \* NewVertices g_newVertices
    graphAdded,    \* vertices and edges added to the graph g by main
    calls,         \* per gap: how often the search and the aligners were invoked, and
                   \* what the search answered
    args,          \* arguments of the function under test (function specifications)
    ret            \* its result

vars == <<pc, opt_numBranches, opt_identity, inFile, paths, isAmbPath, g_ambpath_contig, ambIt,
          stats, seen, fa, out, g_newVertices, graphAdded, calls, args, ret>>

mainVars == <<pc, opt_numBranches, opt_identity, inFile, paths, isAmbPath, g_ambpath_contig, ambIt,
              stats, seen, fa, out, g_newVertices, graphAdded, calls>>

-----------------------------------------------------------------------------
(* Options *)

\* opt::k, the k-mer size (option -k)
k == 2

\* opt::maxCost, the ceiling of the constrained search's visited count
maxCost == 2

\* identity < opt::identity for identity = (float)num / den
TooLow(num, den) == num * opt_identity.den < opt_identity.num * den

-----------------------------------------------------------------------------
(* Characters and sequences *)

Lower == {"a", "c", "g", "t", "n"}

toupper(c) ==
    CASE c = "a" -> "A" [] c = "c" -> "C" [] c = "g" -> "G"
      [] c = "t" -> "T" [] c = "n" -> "N" [] OTHER -> c

tolower(c) ==
    CASE c = "A" -> "a" [] c = "C" -> "c" [] c = "G" -> "g"
      [] c = "T" -> "t" [] c = "N" -> "n" [] OTHER -> c

islower(c) == c \in Lower

complementBase(c) ==
    CASE c = "A" -> "T" [] c = "T" -> "A" [] c = "C" -> "G" [] c = "G" -> "C"
      [] c = "a" -> "t" [] c = "t" -> "a" [] c = "c" -> "g" [] c = "g" -> "c"
      [] OTHER -> c

reverseComplement(s) == [i \in 1..Len(s) |-> complementBase(s[Len(s) + 1 - i])]

\* string::substr(pos) and string(s, pos, n), positions counted from 0
substr(s, pos) == SubSeq(s, pos + 1, Len(s))

prefix(s, n) == SubSeq(s, 1, n)

\* chomp(seq, 'n'): remove one trailing c; the result tells whether it did
chompOk(s, c) == Len(s) > 0 /\ s[Len(s)] = c

chompSeq(s, c) == IF chompOk(s, c) THEN SubSeq(s, 1, Len(s) - 1) ELSE s

\* F applied to the value of v, v being evaluated once
Let(v, F(_)) == CHOOSE y \in {F(x) : x \in {v}} : TRUE

-----------------------------------------------------------------------------
(* createConsensus *)

\* The base chosen without the case of a wildcard in the first sequence
consensusBase_oneSided(x, y) ==
    LET ca == toupper(x)
        cb == toupper(y)
    IN  IF ca = cb THEN ca ELSE IF cb = "N" THEN ca ELSE "x"

consensusBase(x, y) ==
    LET ca == toupper(x)
        cb == toupper(y)
    IN  IF ca = cb THEN ca ELSE IF ca = "N" THEN cb ELSE IF cb = "N" THEN ca ELSE "x"

createConsensus(a, b) ==
    IF a = b THEN a
    ELSE IF \E i \in 1..Len(a) : consensusBase(a[i], b[i]) = "x" THEN <<>>
    ELSE [i \in 1..Len(a) |->
            LET mask == islower(a[i]) \/ islower(b[i])
                c == consensusBase(a[i], b[i])
            IN  IF mask THEN tolower(c) ELSE c]

-----------------------------------------------------------------------------
(* mergeContigs *)

\* The do-while loop of mergeContigs: the accumulated sequence left when the loop
\* ends, or the failure of assert(seq.length() > overlap).
RECURSIVE mergeLoop(_, _, _)
mergeLoop(overlap, seq, bo) ==
    IF ~(Len(seq) > overlap) THEN [abort |-> TRUE, seq |-> seq, o |-> <<>>]
    ELSE Let(createConsensus(substr(seq, Len(seq) - overlap), bo), LAMBDA o :
            IF o = <<>> /\ chompOk(seq, "n")
            THEN mergeLoop(overlap, chompSeq(seq, "n"), bo)
            ELSE [abort |-> FALSE, seq |-> seq, o |-> o])

mergeContigs(overlap, seq, s) ==
    IF ~(Len(s) > overlap) THEN [abort |-> TRUE, seq |-> seq, warn |-> FALSE]
    ELSE Let(mergeLoop(overlap, seq, prefix(s, overlap)), LAMBDA r :
            IF r.abort THEN [abort |-> TRUE, seq |-> r.seq, warn |-> FALSE]
            ELSE IF r.o = <<>>
            THEN [abort |-> FALSE, seq |-> r.seq \o <<"n">> \o s, warn |-> TRUE]
            ELSE [abort |-> FALSE,
                  seq |-> prefix(r.seq, Len(r.seq) - overlap) \o r.o \o substr(s, overlap),
                  warn |-> FALSE])

-----------------------------------------------------------------------------
(* Contig nodes, the contig store and the overlap graph *)

\* ContigNode(id, sense): an oriented contig
Contig(id, sense) == [amb |-> FALSE, id |-> id, sense |-> sense]

\* An ambiguous ContigNode standing for n unknown bases; id() is n
Amb(n) == [amb |-> TRUE, id |-> n, sense |-> FALSE]

\* ContigNode::operator~
Complement(u) == IF u.amb THEN u ELSE [u EXCEPT !.sense = ~u.sense]

\* g_contigs, the sequences read from the FASTA file, indexed by contig id + 1
g_contigs ==
    << <<"G", "A">>,        \* 0
       <<"A", "G">>,        \* 1
       <<"A", "T">>,        \* 2, its own reverse complement
       <<"A", "C">>,        \* 3
       <<"C", "T">>,        \* 4
       <<"A", "C", "T">> >> \* 5

NumContigs == Len(g_contigs)

nS == Contig(0, FALSE)
nT == Contig(1, FALSE)
nX == Contig(2, FALSE)
nY == Contig(3, FALSE)
nZ == Contig(4, FALSE)
nW == Contig(5, FALSE)

\* The distance property of the edge (u, v) of the graph read from the ADJ file:
\* every overlap is k-1, but the edge from contig 4 to contig 3 has distance 0.
edgeDistance(u, v) ==
    IF u = nZ /\ v = nY THEN 0 ELSE 0 - (k - 1)

\* ContigNode::ambiguousSequence: n times 'N'
ambiguousSequence(u) == [i \in 1..u.id |-> "N"]

getSequence(u) ==
    IF u.amb
    THEN LET s == ambiguousSequence(u)
             t == IF Len(s) < k THEN [i \in 1..Len(s) |-> tolower(s[i])] ELSE s
         IN  [i \in 1..(k - 1) |-> "N"] \o t
    ELSE LET seq == g_contigs[u.id + 1]
         IN  IF u.sense THEN reverseComplement(seq) ELSE seq

\* mergePath: the loop over the nodes of path from position i on, seq being the
\* sequence accumulated so far
RECURSIVE mergePathFrom(_, _, _, _)
mergePathFrom(path, i, seq, warn) ==
    IF i > Len(path) THEN [abort |-> FALSE, seq |-> seq, warn |-> warn]
    ELSE IF seq = <<>> THEN mergePathFrom(path, i + 1, getSequence(path[i]), warn)
    ELSE LET d == edgeDistance(path[i - 1], path[i])
         IN  IF ~(d < 0) THEN [abort |-> TRUE, seq |-> seq, warn |-> warn]
             ELSE Let(mergeContigs(0 - d, seq, getSequence(path[i])), LAMBDA m :
                     IF m.abort THEN [abort |-> TRUE, seq |-> m.seq, warn |-> warn]
                     ELSE mergePathFrom(path, i + 1, m.seq, warn \/ m.warn))

mergePath(path) == mergePathFrom(path, 1, <<>>, FALSE)

\* calculatePathProperties(g, path).coverage: every contig of the store has coverage 1
pathCoverage(path) == Len(path)

-----------------------------------------------------------------------------
(* outputNewContig *)

\* The part of a FASTA record that lists one contributing path: its nodes between
\* the common prefix and suffix, or the marker "*"
provenance(path, longestPrefix, longestSuffix) ==
    IF longestPrefix < Len(path) - longestSuffix
    THEN SubSeq(path, longestPrefix + 1, Len(path) - longestSuffix)
    ELSE <<"*">>

\* outputNewContig recording the nodes at longestPrefix and at longestSuffix, counted
\* from 0, as the ends
outputNewContig_shifted(solutions, longestPrefix, longestSuffix, seq, coverage, id) ==
    IF \/ solutions = <<>>
       \/ ~(longestPrefix > 0)
       \/ ~(longestSuffix > 0)
       \/ \E i \in 1..Len(solutions) : ~(longestPrefix + longestSuffix <= Len(solutions[i]))
    THEN [abort |-> TRUE, nvs |-> <<>>, recs |-> <<>>]
    ELSE [abort |-> FALSE,
          nvs |-> << [t |-> solutions[1][longestPrefix + 1],
                      u |-> Contig(id, FALSE),
                      v |-> solutions[1][Len(solutions[1]) - longestSuffix],
                      vp |-> [length |-> Len(seq), coverage |-> coverage]] >>,
          recs |-> << [id |-> id, length |-> Len(seq), coverage |-> coverage,
                       from |-> [i \in 1..Len(solutions) |->
                                    provenance(solutions[i], longestPrefix, longestSuffix)],
                       seq |-> seq] >>]

\* outputNewContig with the identifier id that ContigID::create() returns: the
\* NewVertex it appends to g_newVertices and the record it writes, or the failure
\* of one of its assertions
outputNewContig(solutions, longestPrefix, longestSuffix, seq, coverage, id) ==
    IF \/ solutions = <<>>
       \/ ~(longestPrefix > 0)
       \/ ~(longestSuffix > 0)
       \/ \E i \in 1..Len(solutions) : ~(longestPrefix + longestSuffix <= Len(solutions[i]))
    THEN [abort |-> TRUE, nvs |-> <<>>, recs |-> <<>>]
    ELSE [abort |-> FALSE,
          nvs |-> << [t |-> solutions[1][longestPrefix],
                      u |-> Contig(id, FALSE),
                      v |-> solutions[1][Len(solutions[1]) - longestSuffix + 1],
                      vp |-> [length |-> Len(seq), coverage |-> coverage]] >>,
          recs |-> << [id |-> id, length |-> Len(seq), coverage |-> coverage,
                       from |-> [i \in 1..Len(solutions) |->
                                    provenance(solutions[i], longestPrefix, longestSuffix)],
                       seq |-> seq] >>]

-----------------------------------------------------------------------------
(* alignPair *)

Aborted == [abort |-> TRUE, path |-> <<>>, nvs |-> <<>>, recs |-> <<>>, oracle |-> 0]

Unresolved(n) == [abort |-> FALSE, path |-> <<>>, nvs |-> <<>>, recs |-> <<>>, oracle |-> n]

Kept(path, n) == [abort |-> FALSE, path |-> path, nvs |-> <<>>, recs |-> <<>>, oracle |-> n]

\* The path [front, new contig, back] returned after outputNewContig
Synthesized(o, path, n) ==
    IF o.abort THEN Aborted
    ELSE [abort |-> FALSE, path |-> path, nvs |-> o.nvs, recs |-> o.recs, oracle |-> n]

interior(path) == SubSeq(path, 2, Len(path) - 1)

\* std::mismatch(a.begin(), a.end(), b.begin()) for Len(a) = Len(b): the first
\* position where a and b differ, Len(a) + 1 if there is none
mismatch(a, b) ==
    IF \E i \in 1..Len(a) : a[i] # b[i]
    THEN CHOOSE i \in 1..Len(a) : a[i] # b[i] /\ \A j \in 1..(i - 1) : a[j] = b[j]
    ELSE Len(a) + 1

\* The four assertions of the palindrome case
palindromeCheck(fstSol, sndSol) ==
    LET i == mismatch(fstSol, sndSol)
    IN  /\ i <= Len(fstSol)
        /\ fstSol[i] = Complement(sndSol[i])
        /\ SubSeq(fstSol, i + 1, Len(fstSol)) = SubSeq(sndSol, i + 1, Len(sndSol))

\* The palindrome case returning the second path
palindromeKept_second(solutions) == solutions[2]

\* The path returned for a palindrome: return solutions[0]
palindromeKept(solutions) == solutions[1]

lowerFrom(seq, n) == [i \in 1..Len(seq) |-> IF i > n THEN tolower(seq[i]) ELSE seq[i]]

Min(a, b) == IF a < b THEN a ELSE b

Max(a, b) == IF a < b THEN b ELSE a

\* alignGlobal(a, b, align) as answered by the oracle ans: the match count, the
\* alignment's length and its consensus
alignGlobal(a, b, ans) ==
    LET size == Max(Len(a), Len(b))
    IN  [match |-> Min(ans.match, size), size |-> size,
         consensus |-> IF ans.pick = 1 THEN a ELSE b]

\* The case of alignPair where one of the two paths has no interior node
alignPairDeletion(solutions, sol, id) ==
    IF sol = <<>> THEN Aborted
    ELSE Let(mergePath(sol), LAMBDA m :
            IF m.abort \/ ~(Len(m.seq) > k - 1) THEN Aborted
            ELSE LET consensus == lowerFrom(m.seq, k - 1)
                     match == k - 1
                 IN  IF TooLow(match, Len(consensus)) THEN Unresolved(0)
                     ELSE Synthesized(
                             outputNewContig(solutions, 1, 1, consensus,
                                             pathCoverage(sol), id),
                             <<solutions[1][1], Contig(id, FALSE),
                               solutions[1][Len(solutions[1])]>>, 0))

\* The alignment run before the lengths are compared
alignPairGeneral_alignFirst(solutions, fstSol, sndSol, fstPathContig, sndPathContig, ans, id) ==
    LET minLength == Min(Len(fstPathContig), Len(sndPathContig))
        maxLength == Max(Len(fstPathContig), Len(sndPathContig))
    IN  Let(alignGlobal(fstPathContig, sndPathContig, ans), LAMBDA al :
            IF TooLow(minLength, maxLength) \/ TooLow(al.match, al.size) THEN Unresolved(1)
            ELSE Synthesized(
                    outputNewContig(solutions, 1, 1, al.consensus,
                                    pathCoverage(fstSol) + pathCoverage(sndSol), id),
                    <<solutions[1][1], Contig(id, FALSE),
                      solutions[1][Len(solutions[1])]>>, 1))

\* The alignment of two different merged sequences
alignPairGeneral(solutions, fstSol, sndSol, fstPathContig, sndPathContig, ans, id) ==
    LET minLength == Min(Len(fstPathContig), Len(sndPathContig))
        maxLength == Max(Len(fstPathContig), Len(sndPathContig))
    IN  IF TooLow(minLength, maxLength) THEN Unresolved(0)
        ELSE Let(alignGlobal(fstPathContig, sndPathContig, ans), LAMBDA al :
                IF TooLow(al.match, al.size) THEN Unresolved(1)
                ELSE Synthesized(
                        outputNewContig(solutions, 1, 1, al.consensus,
                                        pathCoverage(fstSol) + pathCoverage(sndSol), id),
                        <<solutions[1][1], Contig(id, FALSE),
                          solutions[1][Len(solutions[1])]>>, 1))

alignPair(solutions, ans, id) ==
    IF \/ Len(solutions) # 2
       \/ ~(Len(solutions[1]) > 1)
       \/ ~(Len(solutions[2]) > 1)
       \/ solutions[1][1] # solutions[2][1]
       \/ solutions[1][Len(solutions[1])] # solutions[2][Len(solutions[2])]
    THEN Aborted
    ELSE LET fstSol == interior(solutions[1])
             sndSol == interior(solutions[2])
         IN  IF fstSol = <<>> \/ sndSol = <<>>
             THEN alignPairDeletion(solutions, IF fstSol = <<>> THEN sndSol ELSE fstSol, id)
             ELSE Let(<<mergePath(fstSol), mergePath(sndSol)>>, LAMBDA m :
                     IF m[1].abort \/ m[2].abort THEN Aborted
                     ELSE IF m[1].seq = m[2].seq
                     THEN IF Len(fstSol) = Len(sndSol)
                          THEN IF palindromeCheck(fstSol, sndSol)
                               THEN Kept(palindromeKept(solutions), 0)
                               ELSE Aborted
                          ELSE Kept(solutions[IF Len(fstSol) > Len(sndSol) THEN 1 ELSE 2], 0)
                     ELSE alignPairGeneral(solutions, fstSol, sndSol, m[1].seq, m[2].seq,
                                           ans, id))

-----------------------------------------------------------------------------
(* alignMulti *)

\* The size of the smallest path
RECURSIVE minLen(_)
minLen(solutions) ==
    IF Len(solutions) = 1 THEN Len(solutions[1])
    ELSE Min(Len(solutions[1]), minLen(Tail(solutions)))

\* The loop that finds the longest prefix, from the value p of longestPrefix on
RECURSIVE prefixScan(_, _)
prefixScan(solutions, p) ==
    IF /\ p < minLen(solutions)
       /\ \A i \in 1..Len(solutions) : solutions[i][p + 1] = solutions[1][p + 1]
    THEN prefixScan(solutions, p + 1)
    ELSE p

longestPrefixOf(solutions) == prefixScan(solutions, 0)

\* The suffix loop bounded by min_len alone
RECURSIVE suffixScan_unbounded(_, _, _)
suffixScan_unbounded(solutions, longestPrefix, s) ==
    IF /\ s < minLen(solutions)
       /\ \A i \in 1..Len(solutions) :
            solutions[i][Len(solutions[i]) - s] = solutions[1][Len(solutions[1]) - s]
    THEN suffixScan_unbounded(solutions, longestPrefix, s + 1)
    ELSE s

\* The loop that finds the longest suffix, from the value s of longestSuffix on
RECURSIVE suffixScan(_, _, _)
suffixScan(solutions, longestPrefix, s) ==
    IF /\ s < minLen(solutions) - longestPrefix
       /\ \A i \in 1..Len(solutions) :
            solutions[i][Len(solutions[i]) - s] = solutions[1][Len(solutions[1]) - s]
    THEN suffixScan(solutions, longestPrefix, s + 1)
    ELSE s

longestSuffixOf(solutions) == suffixScan(solutions, longestPrefixOf(solutions), 0)

\* The nodes of path between the common prefix and the common suffix
core(path, longestPrefix, longestSuffix) ==
    SubSeq(path, longestPrefix + 1, Len(path) - longestSuffix)

\* The sequence pushed to amb_seqs for one path: the merged core, or the last k-1
\* bases of the last node of the common prefix when the core is empty
ambSeq(solutions, i, longestPrefix, longestSuffix) ==
    LET path == core(solutions[i], longestPrefix, longestSuffix)
    IN  IF path # <<>> THEN mergePath(path)
        ELSE LET s == getSequence(solutions[1][longestPrefix])
             IN  [abort |-> FALSE, seq |-> substr(s, Len(s) - k + 1), warn |-> FALSE]

RECURSIVE sumCoverage(_, _, _, _)
sumCoverage(solutions, i, longestPrefix, longestSuffix) ==
    IF i > Len(solutions) THEN 0
    ELSE pathCoverage(core(solutions[i], longestPrefix, longestSuffix))
            + sumCoverage(solutions, i + 1, longestPrefix, longestSuffix)

RECURSIVE minOf(_)
minOf(ns) == IF Len(ns) = 1 THEN ns[1] ELSE Min(ns[1], minOf(Tail(ns)))

RECURSIVE maxOf(_)
maxOf(ns) == IF Len(ns) = 1 THEN ns[1] ELSE Max(ns[1], maxOf(Tail(ns)))

\* dialign(amb_seqs, alignment, matches) as answered by the oracle ans
dialign(amb_seqs, ans) ==
    LET consensus == amb_seqs[Min(ans.pick, Len(amb_seqs))]
    IN  [consensus |-> consensus, matches |-> Min(ans.match, Len(consensus))]

\* The assertions made when the identity is 1 (the #ifndef NDEBUG block)
twoPalindromesCheck(solutions, longestPrefix, longestSuffix) ==
    LET palindrome0 == solutions[1][longestPrefix + 1].id
        palindrome1 == solutions[1][Len(solutions[1]) - longestSuffix].id
        s0 == getSequence(Contig(palindrome0, FALSE))
        s1 == getSequence(Contig(palindrome1, FALSE))
    IN  /\ s0 = reverseComplement(s0)
        /\ s1 = reverseComplement(s1)
        /\ \A i \in 1..Len(solutions) :
            /\ solutions[i][longestPrefix + 1].id = palindrome0
            /\ solutions[i][Len(solutions[i]) - longestSuffix].id = palindrome1
            /\ Len(solutions[i]) = Len(solutions[1])

\* alignMulti once the prefix and the suffix are known and asserted to be positive
alignMultiCores(solutions, longestPrefix, longestSuffix, ans, id) ==
    Let([i \in 1..Len(solutions) |-> ambSeq(solutions, i, longestPrefix, longestSuffix)],
        LAMBDA merged :
        IF \E i \in 1..Len(solutions) : merged[i].abort THEN Aborted
        ELSE LET amb_seqs == [i \in 1..Len(solutions) |-> merged[i].seq]
                 lengths == [i \in 1..Len(solutions) |-> Len(merged[i].seq)]
             IN  IF TooLow(minOf(lengths), maxOf(lengths)) THEN Unresolved(0)
                 ELSE Let(dialign(amb_seqs, ans), LAMBDA d :
                         IF TooLow(d.matches, Len(d.consensus)) THEN Unresolved(1)
                         ELSE IF d.matches = Len(d.consensus)
                         THEN IF twoPalindromesCheck(solutions, longestPrefix, longestSuffix)
                              THEN Kept(solutions[1], 1)
                              ELSE Aborted
                         ELSE Synthesized(
                                 outputNewContig(solutions, longestPrefix, longestSuffix,
                                     d.consensus,
                                     sumCoverage(solutions, 1, longestPrefix, longestSuffix),
                                     id),
                                 prefix(solutions[1], longestPrefix)
                                     \o <<Contig(id, FALSE)>>
                                     \o substr(solutions[1],
                                               Len(solutions[1]) - longestSuffix), 1)))

alignMulti(solutions, ans, id) ==
    Let(<<longestPrefixOf(solutions), longestSuffixOf(solutions)>>, LAMBDA ps :
        IF ~(ps[1] > 0 /\ ps[2] > 0) THEN Aborted
        ELSE alignMultiCores(solutions, ps[1], ps[2], ans, id))

\* align: two paths go to alignPair, more to alignMulti
align(sequences, ans, id) ==
    IF ~(Len(sequences) > 1) THEN Aborted
    ELSE IF Len(sequences) = 2 THEN alignPair(sequences, ans, id)
    ELSE alignMulti(sequences, ans, id)

-----------------------------------------------------------------------------
(* fillGap *)

\* classify with the count of candidates tested before the budget
classify_countFirst(solutions, numVisited) ==
    IF Len(solutions) > opt_numBranches THEN "numTooManySolutions"
    ELSE IF numVisited >= maxCost THEN "tooComplex"
    ELSE IF solutions = <<>> THEN "numNoSolutions"
    ELSE IF Len(solutions) = 1 THEN "one"
    ELSE "align"

\* The classification made by fillGap from the search's answer
classify(solutions, numVisited) ==
    IF numVisited >= maxCost THEN "tooComplex"
    ELSE IF Len(solutions) > opt_numBranches THEN "numTooManySolutions"
    ELSE IF solutions = <<>> THEN "numNoSolutions"
    ELSE IF Len(solutions) = 1 THEN "one"
    ELSE "align"

\* fillGap for the constraint c, the constrained search having returned found and
\* numVisited: the counter incremented, the consensus returned, the paths marked
\* as seen, and what align wrote
fillGap(c, found, numVisited, ans, id) ==
    LET solutions == [i \in 1..Len(found) |-> <<c.source>> \o found[i]]
        class == classify(solutions, numVisited)
        none == [abort |-> FALSE, consensus |-> <<>>, marked |-> <<>>,
                 nvs |-> <<>>, recs |-> <<>>, oracle |-> 0, aligned |-> 0]
    IN  IF class = "one" THEN none @@ [counter |-> "numMerged"]
        ELSE IF class # "align" THEN none @@ [counter |-> class]
        ELSE Let(align(solutions, ans, id), LAMBDA a :
                [abort |-> a.abort, consensus |-> a.path,
                 marked |-> IF a.path # <<>> THEN solutions ELSE <<>>,
                 nvs |-> a.nvs, recs |-> a.recs, oracle |-> a.oracle, aligned |-> 1,
                 counter |-> IF a.abort THEN "none"
                             ELSE IF a.path # <<>> THEN "numMerged" ELSE "notMerged"])

-----------------------------------------------------------------------------
(* The gap registry g_ambpath_contig *)

AmbPathConstraint(src, dst, d) == [source |-> src, dest |-> dst, dist |-> d]

\* ContigNode::operator<, as an order of integer keys
nodeRank(u) == IF u.amb THEN 0 - u.id ELSE 2 * u.id + (IF u.sense THEN 1 ELSE 0)

\* AmbPathConstraint::operator<
constraintLess(a, b) ==
    \/ nodeRank(a.source) < nodeRank(b.source)
    \/ (a.source = b.source /\ nodeRank(a.dest) < nodeRank(b.dest))
    \/ (a.source = b.source /\ a.dest = b.dest /\ a.dist < b.dist)

\* The keys of the map in the order in which its iterator visits them
RECURSIVE inOrder(_)
inOrder(keys) ==
    IF keys = {} THEN <<>>
    ELSE LET first == CHOOSE c \in keys : \A d \in keys \ {c} : constraintLess(c, d)
         IN  <<first>> \o inOrder(keys \ {first})

\* map::insert(value_type(c, ContigPath())): no effect when the key is present
insertEmpty(map, c) == IF c \in DOMAIN map THEN map ELSE (c :> <<>>) @@ map

\* The constraints keyed by the gap length instead of its negation
constraintsOf_unnegated(path) ==
    {AmbPathConstraint(path[i - 1], path[i + 1], path[i].id) :
        i \in {j \in 2..(Len(path) - 1) : path[j].amb}}

\* The constraints readPath finds in one path: one per ambiguous interior node
constraintsOf(path) ==
    {AmbPathConstraint(path[i - 1], path[i + 1], 0 - path[i].id) :
        i \in {j \in 2..(Len(path) - 1) : path[j].amb}}

RECURSIVE insertAll(_, _)
insertAll(map, cs) ==
    IF cs = {} THEN map
    ELSE LET c == CHOOSE x \in cs : TRUE
         IN  insertAll(insertEmpty(map, c), cs \ {c})

-----------------------------------------------------------------------------
(* markSeen *)

\* markSeen that sets the mark whatever the flag
markSeenPath_set(marks, path, flag) ==
    [id \in 1..Len(marks) |->
        IF \E i \in 1..Len(path) : ~path[i].amb /\ path[i].id < Len(marks)
                                    /\ path[i].id = id - 1
        THEN TRUE ELSE marks[id]]

\* markSeen(seen, path, flag)
markSeenPath(marks, path, flag) ==
    [id \in 1..Len(marks) |->
        IF \E i \in 1..Len(path) : ~path[i].amb /\ path[i].id < Len(marks)
                                    /\ path[i].id = id - 1
        THEN flag ELSE marks[id]]

\* markSeen(seen, paths, flag)
RECURSIVE markSeenPaths(_, _, _)
markSeenPaths(marks, ps, flag) ==
    IF ps = <<>> THEN marks
    ELSE markSeenPaths(markSeenPath(marks, Head(ps), flag), Tail(ps), flag)

-----------------------------------------------------------------------------
(* The rewriting of one path by main *)

\* The loop inserting the whole resolution, its first and last node included
RECURSIVE rewriteFrom_whole(_, _, _, _)
rewriteFrom_whole(map, path, i, cur_path) ==
    IF i > Len(path) THEN [abort |-> FALSE, path |-> cur_path]
    ELSE IF ~path[i].amb
    THEN rewriteFrom_whole(map, path, i + 1, Append(cur_path, path[i]))
    ELSE IF ~(i < Len(path)) THEN [abort |-> TRUE, path |-> cur_path]
    ELSE LET c == AmbPathConstraint(path[i - 1], path[i + 1], 0 - path[i].id)
         IN  IF c \notin DOMAIN map THEN [abort |-> TRUE, path |-> cur_path]
             ELSE LET solution == map[c]
                  IN  IF solution = <<>>
                      THEN rewriteFrom_whole(map, path, i + 1, Append(cur_path, path[i]))
                      ELSE IF ~(Len(solution) > 1) THEN [abort |-> TRUE, path |-> cur_path]
                      ELSE rewriteFrom_whole(map, path, i + 1, cur_path \o solution)

\* The loop of main over the nodes of an ambiguous path, from position i on
RECURSIVE rewriteFrom(_, _, _, _)
rewriteFrom(map, path, i, cur_path) ==
    IF i > Len(path) THEN [abort |-> FALSE, path |-> cur_path]
    ELSE IF ~path[i].amb THEN rewriteFrom(map, path, i + 1, Append(cur_path, path[i]))
    ELSE IF ~(i < Len(path)) THEN [abort |-> TRUE, path |-> cur_path]
    ELSE LET c == AmbPathConstraint(path[i - 1], path[i + 1], 0 - path[i].id)
         IN  IF c \notin DOMAIN map THEN [abort |-> TRUE, path |-> cur_path]
             ELSE LET solution == map[c]
                  IN  IF solution = <<>>
                      THEN rewriteFrom(map, path, i + 1, Append(cur_path, path[i]))
                      ELSE IF ~(Len(solution) > 1) THEN [abort |-> TRUE, path |-> cur_path]
                      ELSE rewriteFrom(map, path, i + 1, cur_path \o interior(solution))

\* What main writes for one path
rewritePath(map, path, isAmb) ==
    IF ~isAmb THEN [abort |-> FALSE, path |-> path]
    ELSE IF ~(Len(path) > 2) THEN [abort |-> TRUE, path |-> <<>>]
    ELSE rewriteFrom(map, path, 2, <<path[1]>>)

-----------------------------------------------------------------------------
(* main: the inputs *)

MaxPaths == 2

MaxCand == 3

MaxBranches == 3

OracleMax == 3

\* The paths a record of the PATH file may hold
InputPaths ==
    { <<nS, nX, nT>>,
      <<nS, Amb(1)>>,
      <<nS, Amb(1), nT>>,
      <<nS, Amb(1), nT, nS, Amb(1), nT>>,
      <<Amb(1), nS, Amb(1), nW>>,
      <<nS, Amb(1), Amb(1)>> }

PathRecord(path) == [ok |-> TRUE, path |-> path]

\* A record that operator>> cannot parse
BadRecord == [ok |-> FALSE, path |-> <<>>]

\* The PATH files: up to MaxPaths records, possibly followed by an unparseable one
PathFiles ==
    {f \o tail :
        f \in UNION {[1..n -> {PathRecord(q) : q \in InputPaths}] : n \in 1..MaxPaths},
        tail \in {<<>>, <<BadRecord>>}}

\* The node lists between source and destination that the constrained search may
\* find, in the order in which it finds them
Interiors == << <<>>, <<nX>>, <<Complement(nX)>>, <<nY, nZ>>, <<nZ, nY>> >>

\* The node lists the search may find for a gap that ends in nW: they share their
\* first node
SharedInteriors == << <<nY>>, <<nY, nZ>>, <<nY, Complement(nT)>> >>

\* The node lists the search may find for a gap that ends in an ambiguous node
AmbInteriors == << <<>>, <<nX>> >>

InteriorsTo(dest) ==
    IF dest = nW THEN SharedInteriors ELSE IF dest.amb THEN AmbInteriors ELSE Interiors

\* The elements of master at the positions in idx, in master's order
RECURSIVE subList(_, _)
subList(master, idx) ==
    IF idx = {} THEN <<>>
    ELSE LET i == CHOOSE x \in idx : \A y \in idx : x <= y
         IN  <<master[i]>> \o subList(master, idx \ {i})

\* What constrainedSearch may put in solutions for a destination: paths that
\* exclude the source and end with the destination
SearchAnswers(dest) ==
    {[i \in 1..Cardinality(idx) |-> subList(InteriorsTo(dest), idx)[i] \o <<dest>>] :
        idx \in {s \in SUBSET (1..Len(InteriorsTo(dest))) : Cardinality(s) <= MaxCand}}

\* The values numVisited may have after the search: below and at the ceiling
VisitedAnswers == {maxCost - 1, maxCost}

\* The answers of the alignment oracles: a match count and which of the aligned
\* sequences the consensus equals
OracleAnswers == [match : 0..OracleMax, pick : 1..2]

NoAnswer == [match |-> 0, pick |-> 1]

\* The oracle is consulted only when fillGap aligns
AnswersFor(c, found, numVisited) ==
    IF classify([i \in 1..Len(found) |-> <<c.source>> \o found[i]], numVisited) = "align"
    THEN OracleAnswers ELSE {NoAnswer}

NoRet == [fn |-> "none"]

ZeroStats ==
    [numAmbPaths |-> 0, numMerged |-> 0, numNoSolutions |-> 0,
     numTooManySolutions |-> 0, tooComplex |-> 0, notMerged |-> 0]

NoCalls ==
    [search |-> 0, align |-> 0, oracle |-> 0, written |-> 0, synthesized |-> 0,
     numVisited |-> 0, found |-> 0, contigs |-> {}]

\* The identifiers of the contigs of the paths in ps
RECURSIVE contigsOf(_)
contigsOf(ps) ==
    IF ps = <<>> THEN {}
    ELSE {Head(ps)[i].id : i \in {j \in 1..Len(Head(ps)) : ~Head(ps)[j].amb}}
            \cup contigsOf(Tail(ps))

-----------------------------------------------------------------------------
(* main: the actions *)

Init ==
    /\ pc = "read"
    /\ opt_numBranches \in {0, MaxBranches}
    /\ opt_identity = [num |-> 1, den |-> 2]
    /\ inFile \in PathFiles
    /\ paths = <<>>
    /\ isAmbPath = <<>>
    /\ g_ambpath_contig = <<>>
    /\ ambIt = 0
    /\ stats = ZeroStats
    /\ seen = <<>>
    /\ fa = <<>>
    /\ out = <<>>
    /\ g_newVertices = <<>>
    /\ graphAdded = [vertices |-> <<>>, edges |-> <<>>]
    /\ calls = <<>>
    /\ args = <<>>
    /\ ret = NoRet

\* readPath: one iteration of the loop that reads a record
ReadPathRecord ==
    /\ pc = "read"
    /\ inFile # <<>>
    /\ Head(inFile).ok
    /\ LET path == Head(inFile).path
           cs == IF Len(path) <= 2 THEN {} ELSE constraintsOf(path)
       IN  /\ paths' = Append(paths, path)
           /\ isAmbPath' = Append(isAmbPath, cs # {})
           /\ g_ambpath_contig' = insertAll(g_ambpath_contig, cs)
           /\ calls' = [c \in DOMAIN g_ambpath_contig' |->
                           IF c \in DOMAIN calls THEN calls[c] ELSE NoCalls]
    /\ inFile' = Tail(inFile)
    /\ UNCHANGED <<pc, opt_numBranches, opt_identity, ambIt, stats, seen, fa, out,
                   g_newVertices, graphAdded, args, ret>>

\* readPath without assert(in.eof()): a record that cannot be parsed ends the loop
\* and main goes on with the paths read so far
ReadPathMalformed_unchecked ==
    /\ pc = "read"
    /\ inFile # <<>>
    /\ ~Head(inFile).ok
    /\ stats' = [stats EXCEPT !.numAmbPaths = Cardinality(DOMAIN g_ambpath_contig)]
    /\ seen' = [id \in 1..NumContigs |-> FALSE]
    /\ pc' = "resolve"
    /\ UNCHANGED <<opt_numBranches, opt_identity, inFile, paths, isAmbPath,
                   g_ambpath_contig, ambIt, fa, out, g_newVertices, graphAdded,
                   calls, args, ret>>

\* readPath: a record that cannot be parsed ends the loop and assert(in.eof()) fails
ReadPathMalformed ==
    /\ pc = "read"
    /\ inFile # <<>>
    /\ ~Head(inFile).ok
    /\ pc' = "abort"
    /\ UNCHANGED <<opt_numBranches, opt_identity, inFile, paths, isAmbPath,
                   g_ambpath_contig, ambIt, stats, seen, fa, out, g_newVertices,
                   graphAdded, calls, args, ret>>

\* readPath returns at the end of the file; main sets numAmbPaths, opens the FASTA
\* output and allocates seen
ReadPathEof ==
    /\ pc = "read"
    /\ inFile = <<>>
    /\ stats' = [stats EXCEPT !.numAmbPaths = Cardinality(DOMAIN g_ambpath_contig)]
    /\ seen' = [id \in 1..NumContigs |-> FALSE]
    /\ pc' = "resolve"
    /\ UNCHANGED <<opt_numBranches, opt_identity, inFile, paths, isAmbPath,
                   g_ambpath_contig, ambIt, fa, out, g_newVertices, graphAdded,
                   calls, args, ret>>

\* One iteration of the resolution loop of main: ambIt->second = fillGap(...)
FillGap ==
    /\ pc = "resolve"
    /\ ambIt < Cardinality(DOMAIN g_ambpath_contig)
    /\ \E c \in {inOrder(DOMAIN g_ambpath_contig)[ambIt + 1]} :
           \E found \in SearchAnswers(c.dest), numVisited \in VisitedAnswers :
           \E ans \in AnswersFor(c, found, numVisited) :
              \E r \in {fillGap(c, found, numVisited, ans,
                                 NumContigs + Len(g_newVertices))} :
                  /\ calls' = [calls EXCEPT ![c] =
                                 [search |-> @.search + 1,
                                  align |-> @.align + r.aligned,
                                  oracle |-> @.oracle + r.oracle,
                                  written |-> @.written + (IF r.abort THEN 0 ELSE 1),
                                  synthesized |-> @.synthesized + Len(r.recs),
                                  numVisited |-> numVisited,
                                  found |-> Len(found),
                                  contigs |-> contigsOf(r.marked)]]
                  /\ IF r.abort
                     THEN /\ pc' = "abort"
                          /\ UNCHANGED <<g_ambpath_contig, ambIt, stats, seen, fa,
                                         g_newVertices>>
                     ELSE /\ pc' = pc
                          /\ g_ambpath_contig' = [g_ambpath_contig EXCEPT ![c] = r.consensus]
                          /\ ambIt' = ambIt + 1
                          /\ stats' = [stats EXCEPT ![r.counter] = @ + 1]
                          /\ seen' = markSeenPaths(seen, r.marked, TRUE)
                          /\ fa' = fa \o r.recs
                          /\ g_newVertices' = g_newVertices \o r.nvs
    /\ UNCHANGED <<opt_numBranches, opt_identity, inFile, paths, isAmbPath, out,
                   graphAdded, args, ret>>

\* The values of the map, in the order of its keys
resolutions(map) == [i \in 1..Cardinality(DOMAIN map) |-> map[inOrder(DOMAIN map)[i]]]

\* The contigs main writes as lines of their own
unseenLines(marks) ==
    LET ids == {id \in 1..Len(marks) : marks[id]}
    IN  [i \in 1..Cardinality(ids) |->
            [kind |-> "contig", id |-> subList([id \in 1..Len(marks) |-> id - 1], ids)[i],
             path |-> <<>>]]

\* After the resolution loop: main unmarks the contigs used in a path and writes
\* the contigs still marked
OutputUnseen ==
    /\ pc = "resolve"
    /\ ambIt = Cardinality(DOMAIN g_ambpath_contig)
    /\ seen' = markSeenPaths(markSeenPaths(seen, resolutions(g_ambpath_contig), FALSE),
                             paths, FALSE)
    /\ out' = unseenLines(seen')
    /\ pc' = "rewrite"
    /\ UNCHANGED <<opt_numBranches, opt_identity, inFile, paths, isAmbPath,
                   g_ambpath_contig, ambIt, stats, fa, g_newVertices, graphAdded,
                   calls, args, ret>>

\* The number of path lines written so far
pathLines == Len(SelectSeq(out, LAMBDA l : l.kind = "path"))

\* One iteration of the loop of main that writes the paths
RewritePath ==
    /\ pc = "rewrite"
    /\ pathLines < Len(paths)
    /\ \E i \in {pathLines + 1} :
       \E r \in {rewritePath(g_ambpath_contig, paths[i], isAmbPath[i])} :
           IF r.abort
           THEN pc' = "abort" /\ out' = out
           ELSE pc' = pc /\ out' = Append(out, [kind |-> "path", id |-> i, path |-> r.path])
    /\ UNCHANGED <<opt_numBranches, opt_identity, inFile, paths, isAmbPath,
                   g_ambpath_contig, ambIt, stats, seen, fa, g_newVertices, graphAdded,
                   calls, args, ret>>

\* The vertices and edges main adds to the graph for the records of g_newVertices
addedToGraph(nvs) ==
    [vertices |-> [i \in 1..Len(nvs) |-> nvs[i].u],
     edges |-> [i \in 1..(2 * Len(nvs)) |->
                  IF i % 2 = 1 THEN <<nvs[(i + 1) \div 2].t, nvs[(i + 1) \div 2].u>>
                  ELSE <<nvs[i \div 2].u, nvs[i \div 2].v>>]]

\* All paths are written and no graph output was asked for (opt::graphPath empty)
FinishWithoutGraph ==
    /\ pc = "rewrite"
    /\ pathLines = Len(paths)
    /\ pc' = "done"
    /\ UNCHANGED <<opt_numBranches, opt_identity, inFile, paths, isAmbPath,
                   g_ambpath_contig, ambIt, stats, seen, fa, out, g_newVertices,
                   graphAdded, calls, args, ret>>

\* All paths are written; main adds the new contigs to the graph and writes it
FinishWithGraph ==
    /\ pc = "rewrite"
    /\ pathLines = Len(paths)
    /\ graphAdded' = addedToGraph(g_newVertices)
    /\ pc' = "done"
    /\ UNCHANGED <<opt_numBranches, opt_identity, inFile, paths, isAmbPath,
                   g_ambpath_contig, ambIt, stats, seen, fa, out, g_newVertices,
                   calls, args, ret>>

Next ==
    \/ ReadPathRecord
    \/ ReadPathMalformed
    \/ ReadPathEof
    \/ FillGap
    \/ OutputUnseen
    \/ RewritePath
    \/ FinishWithoutGraph
    \/ FinishWithGraph

Spec == Init /\ [][Next]_vars

-----------------------------------------------------------------------------
(* Function specification: mergeContigs on bounded inputs *)

MaxSeqLen == 3

MergeBases == {"A", "C", "n"}

SeqsUpTo(S, n) == UNION {[1..m -> S] : m \in 0..n}

\* mergePath, the only caller, passes overlap = -d with d < 0
MergeInputs ==
    {[fn |-> "mergeContigs", overlap |-> o, seq |-> a, s |-> b] :
        o \in 1..(MaxSeqLen - 1),
        a \in SeqsUpTo(MergeBases, MaxSeqLen + 1),
        b \in SeqsUpTo({"A", "C"}, MaxSeqLen)}

\* The options -p may set in the function specifications
Identities == {[num |-> 1, den |-> 2], [num |-> 9, den |-> 10]}

\* main does not run in the function specifications
MainIdle ==
    /\ pc = "idle"
    /\ inFile = <<>>
    /\ paths = <<>>
    /\ isAmbPath = <<>>
    /\ g_ambpath_contig = <<>>
    /\ ambIt = 0
    /\ stats = <<>>
    /\ seen = <<>>
    /\ fa = <<>>
    /\ out = <<>>
    /\ g_newVertices = <<>>
    /\ graphAdded = <<>>
    /\ calls = <<>>

InitMerge ==
    /\ MainIdle
    /\ opt_numBranches = MaxBranches
    /\ opt_identity = [num |-> 9, den |-> 10]
    /\ args \in {a \in MergeInputs : Len(a.seq) > a.overlap /\ Len(a.s) > a.overlap}
    /\ ret = NoRet

CallMergeContigs ==
    /\ args.fn = "mergeContigs"
    /\ ret = NoRet
    /\ ret' = [fn |-> "mergeContigs"] @@ mergeContigs(args.overlap, args.seq, args.s)
    /\ UNCHANGED <<args, mainVars>>

SpecMerge == InitMerge /\ [][CallMergeContigs]_vars

-----------------------------------------------------------------------------
(* Function specification: createConsensus on bounded pairs of sequences *)

MaxConsLen == 2

ConsensusBases == {"A", "C", "N", "a", "n"}

\* createConsensus asserts a.length() == b.length()
ConsensusInputs ==
    {[fn |-> "createConsensus", a |-> a, b |-> b] :
        <<a, b>> \in UNION {[1..m -> ConsensusBases] \X [1..m -> ConsensusBases] :
                              m \in 0..MaxConsLen}}

InitConsensus ==
    /\ MainIdle
    /\ opt_numBranches = MaxBranches
    /\ opt_identity = [num |-> 9, den |-> 10]
    /\ args \in ConsensusInputs
    /\ ret = NoRet

\* createConsensus(a, b), and createConsensus(b, a) for the same two sequences
CallCreateConsensus ==
    /\ args.fn = "createConsensus"
    /\ ret = NoRet
    /\ ret' = [fn |-> "createConsensus", seq |-> createConsensus(args.a, args.b),
               swapped |-> createConsensus(args.b, args.a)]
    /\ UNCHANGED <<args, mainVars>>

SpecConsensus == InitConsensus /\ [][CallCreateConsensus]_vars

-----------------------------------------------------------------------------
(* Function specification: fillGap on bounded answers of the search and the oracles *)

FillGapInputs ==
    {[fn |-> "fillGap", c |-> AmbPathConstraint(nS, nT, 0 - 1), found |-> f,
      numVisited |-> v, ans |-> a, id |-> NumContigs] :
        f \in SearchAnswers(nT), v \in VisitedAnswers, a \in OracleAnswers}

InitFillGap ==
    /\ MainIdle
    /\ opt_numBranches \in 0..MaxBranches
    /\ opt_identity \in Identities
    /\ args \in {a \in FillGapInputs :
                    a.ans \in AnswersFor(a.c, a.found, a.numVisited)}
    /\ ret = NoRet

CallFillGap ==
    /\ args.fn = "fillGap"
    /\ ret = NoRet
    /\ ret' = [fn |-> "fillGap"]
                @@ fillGap(args.c, args.found, args.numVisited, args.ans, args.id)
    /\ UNCHANGED <<args, mainVars>>

SpecFillGap == InitFillGap /\ [][CallFillGap]_vars

-----------------------------------------------------------------------------
(* Function specification: alignPair on bounded pairs of candidate paths *)

\* The nodes between source and destination of the candidate paths of a pair
PairInteriors ==
    { <<>>, <<nX>>, <<Complement(nX)>>, <<nX, nX>>, <<Complement(nX), Complement(nX)>>,
      <<nY, nZ>>, <<nZ, nY>>, <<nW>> }

PairInputs ==
    {[fn |-> "alignPair", solutions |-> << <<nS>> \o a \o <<nT>>, <<nS>> \o b \o <<nT>> >>,
      ans |-> o, id |-> NumContigs] :
        a \in PairInteriors, b \in PairInteriors, o \in OracleAnswers}

InitPair ==
    /\ MainIdle
    /\ opt_numBranches = MaxBranches
    /\ opt_identity \in Identities
    /\ args \in PairInputs
    /\ ret = NoRet

CallAlignPair ==
    /\ args.fn = "alignPair"
    /\ ret = NoRet
    /\ ret' = [fn |-> "alignPair"] @@ alignPair(args.solutions, args.ans, args.id)
    /\ UNCHANGED <<args, mainVars>>

SpecPair == InitPair /\ [][CallAlignPair]_vars

-----------------------------------------------------------------------------
(* Function specification: the common prefix and suffix found by alignMulti *)

MaxMulti == 3

MaxCore == 2

\* The candidate paths: from nS to nT through up to MaxCore nodes
MultiCandidates == {<<nS>> \o m \o <<nT>> : m \in SeqsUpTo({nX, nT}, MaxCore)}

nA == Contig(2, TRUE)
nB == Contig(3, FALSE)
nC == Contig(4, FALSE)
nD == Contig(5, FALSE)

\* The candidates [S,a,b,X,T], [S,a,c,X,T], [S,a,d,T]
FactoringExample ==
    << <<nS, nA, nB, nX, nT>>, <<nS, nA, nC, nX, nT>>, <<nS, nA, nD, nT>> >>

MultiInputs ==
    {[fn |-> "alignMulti", solutions |-> s] :
        s \in UNION {[1..n -> MultiCandidates] : n \in 3..MaxMulti} \cup {FactoringExample}}

\* What alignMulti computes before its assertions: longestPrefix, longestSuffix and
\* the nodes of each path between them
commonEnds(solutions) ==
    Let(<<longestPrefixOf(solutions), longestSuffixOf(solutions)>>, LAMBDA ps :
        [longestPrefix |-> ps[1], longestSuffix |-> ps[2],
         cores |-> [i \in 1..Len(solutions) |->
                      IF ps[1] + ps[2] <= Len(solutions[i])
                      THEN core(solutions[i], ps[1], ps[2]) ELSE <<"overlap">>]])

InitMulti ==
    /\ MainIdle
    /\ opt_numBranches = MaxBranches
    /\ opt_identity = [num |-> 9, den |-> 10]
    /\ args \in MultiInputs
    /\ ret = NoRet

CallCommonEnds ==
    /\ args.fn = "alignMulti"
    /\ ret = NoRet
    /\ ret' = [fn |-> "alignMulti"] @@ commonEnds(args.solutions)
    /\ UNCHANGED <<args, mainVars>>

SpecMulti == InitMulti /\ [][CallCommonEnds]_vars

-----------------------------------------------------------------------------
(* Claims about mergeContigs *)

\* The trailing 'n' bases of seq
RECURSIVE trailingN(_)
trailingN(seq) ==
    IF chompOk(seq, "n") THEN 1 + trailingN(chompSeq(seq, "n")) ELSE 0

dropLast(seq, j) == SubSeq(seq, 1, Len(seq) - j)

\* Way (a) of the claim: j trailing 'n' removed, then a consensus of the overlap
MergedWithConsensus(a, r) ==
    \E j \in 0..trailingN(a.seq) :
        LET acc == dropLast(a.seq, j)
        IN  /\ Len(acc) >= a.overlap
            /\ LET o == createConsensus(substr(acc, Len(acc) - a.overlap),
                                        prefix(a.s, a.overlap))
               IN  /\ (a.overlap > 0 => o # <<>>)
                   /\ ~r.warn
                   /\ r.seq = prefix(acc, Len(acc) - a.overlap) \o o \o substr(a.s, a.overlap)

\* Way (b) of the claim: no trailing 'n' is left, a filler 'n' separates the two
MergedWithFiller(a, r) ==
    LET acc == dropLast(a.seq, trailingN(a.seq))
    IN  r.warn /\ r.seq = acc \o <<"n">> \o a.s

\* C8: an overlap mismatch is never fatal: whenever accumulated and next are both
\* longer than the overlap, mergeContigs ends without aborting, either with a
\* consensus of the overlap after removing trailing 'n' bases or with the filler.
C8_MergeNeverFatal ==
    (/\ ret.fn = "mergeContigs"
     /\ Len(args.seq) > args.overlap
     /\ Len(args.s) > args.overlap)
        => /\ ~ret.abort
           /\ (MergedWithConsensus(args, ret) \/ MergedWithFiller(args, ret))

-----------------------------------------------------------------------------
(* Claims about fillGap and main *)

\* C1: a gap whose search stays under the budget and returns exactly one candidate
\* (the branching limit being at least 1) is resolved to that candidate: fillGap
\* returns the candidate path, which main stores in the registry, no alignment
\* oracle is invoked and the merged counter is incremented.
C1_OneCandidateAccepted ==
    (/\ ret.fn = "fillGap"
     /\ Len(args.found) = 1
     /\ args.numVisited < maxCost
     /\ opt_numBranches >= 1)
        => /\ ~ret.abort
           /\ ret.consensus = <<args.c.source>> \o args.found[1]
           /\ ret.aligned = 0
           /\ ret.oracle = 0
           /\ ret.counter = "numMerged"

\* The gaps that main has resolved
ResolvedGaps == {c \in DOMAIN calls : calls[c].written > 0}

\* The resolved gaps whose search reached the budget ceiling
TooComplexGaps == {c \in ResolvedGaps : calls[c].numVisited >= maxCost}

PathLinesOf(lines) == SelectSeq(lines, LAMBDA l : l.kind = "path")

IsInterior(path, j) == 1 < j /\ j < Len(path)

\* What stands for node j of an input path in the rewritten path
Replacement(map, path, j) ==
    IF path[j].amb /\ IsInterior(path, j)
    THEN LET c == [source |-> path[j - 1], dest |-> path[j + 1], dist |-> 0 - path[j].id]
         IN  IF c \in DOMAIN map /\ map[c] # <<>>
             THEN SubSeq(map[c], 2, Len(map[c]) - 1)
             ELSE <<path[j]>>
    ELSE <<path[j]>>

\* The first n nodes of path, each replaced
RECURSIVE Spliced(_, _, _)
Spliced(map, path, n) ==
    IF n = 0 THEN <<>> ELSE Spliced(map, path, n - 1) \o Replacement(map, path, n)

RECURSIVE SumOver(_, _)
SumOver(f, S) ==
    IF S = {} THEN 0
    ELSE LET x == CHOOSE y \in S : TRUE IN f[x] + SumOver(f, S \ {x})

\* C2: a gap whose search reached the budget ceiling is too complex whatever the
\* number of candidates: only the too-complex counter counts it, no alignment runs,
\* no contig is synthesized, its registry entry stays empty, and every occurrence of
\* its placeholder is written unchanged at its place in the rewritten path.
C2_TooComplexKeepsPlaceholder ==
    (pc \in {"resolve", "rewrite", "done", "abort"} /\ seen # <<>>)
        => /\ \A c \in TooComplexGaps :
                /\ g_ambpath_contig[c] = <<>>
                /\ calls[c].align = 0
                /\ calls[c].oracle = 0
                /\ calls[c].synthesized = 0
           /\ stats.tooComplex = Cardinality(TooComplexGaps)
           /\ stats.numMerged + stats.numNoSolutions + stats.numTooManySolutions
                + stats.notMerged = Cardinality(ResolvedGaps \ TooComplexGaps)
           /\ Len(fa) = SumOver([c \in DOMAIN calls |-> calls[c].synthesized], DOMAIN calls)
           /\ Len(g_newVertices) = Len(fa)
           /\ \A n \in 1..Len(PathLinesOf(out)) :
                LET l == PathLinesOf(out)[n]
                    path == paths[l.id]
                IN  \A j \in 1..Len(path) :
                        (/\ path[j].amb
                         /\ IsInterior(path, j)
                         /\ [source |-> path[j - 1], dest |-> path[j + 1],
                             dist |-> 0 - path[j].id] \in TooComplexGaps)
                            => LET at == Len(Spliced(g_ambpath_contig, path, j - 1)) + 1
                               IN  at <= Len(l.path) /\ l.path[at] = path[j]

\* C2 witness: a too complex gap with more candidates than the branching limit,
\* and a rewritten path that holds its placeholder
C2_Witness ==
    /\ pc = "done"
    /\ \E c \in TooComplexGaps : calls[c].found > opt_numBranches /\ calls[c].found >= 2
    /\ \E n \in 1..Len(PathLinesOf(out)) :
          \E j \in 1..Len(PathLinesOf(out)[n].path) : PathLinesOf(out)[n].path[j].amb

\* C3: fatal errors never follow output: in every run that aborts, no consensus
\* record and no line of the rewritten path list has been written.
C3_NoOutputBeforeAbort ==
    pc = "abort" => fa = <<>> /\ out = <<>>

\* C3 as amended: an abort while loading precedes all output; an abort inside the
\* resolution loop precedes every line of the path list but may follow consensus
\* records; only an abort of the rewrite loop follows lines of the path list.
C3_AbortPhases ==
    pc = "abort"
        => /\ (inFile # <<>> => fa = <<>> /\ out = <<>>)
           /\ (ambIt < Cardinality(DOMAIN g_ambpath_contig) => out = <<>>)
           /\ (out # <<>> =>
                 \E i \in 1..Len(paths) : paths[i][Len(paths[i])].amb /\ isAmbPath[i])

\* C3 witness: an abort inside the resolution loop after a consensus record
C3_Witness ==
    /\ pc = "abort"
    /\ inFile = <<>>
    /\ ambIt < Cardinality(DOMAIN g_ambpath_contig)
    /\ fa # <<>>

ContigLinesOf(lines) == SelectSeq(lines, LAMBDA l : l.kind = "contig")

ContigLineIds == {ContigLinesOf(out)[n].id : n \in 1..Len(ContigLinesOf(out))}

\* The contigs referenced by an input path or by a stored resolution
Referenced == contigsOf(paths) \cup contigsOf(resolutions(g_ambpath_contig))

\* The contigs of the candidate paths of the gaps that alignment resolved
InAlignedCandidates == UNION {calls[c].contigs : c \in DOMAIN g_ambpath_contig}

TriplesOf(ps) ==
    UNION {{[source |-> ps[i][j - 1], dest |-> ps[i][j + 1], dist |-> 0 - ps[i][j].id] :
                j \in {m \in 2..(Len(ps[i]) - 1) : ps[i][m].amb}} : i \in 1..Len(ps)}

\* C5: the registry holds exactly one entry per distinct triple of the ambiguous
\* interior nodes of the paths read; the resolution loop searches and aligns once
\* per entry and writes each entry once, and the rewrite loop never writes the
\* registry.
C5_RegistryOncePerTriple ==
    [][/\ DOMAIN g_ambpath_contig' = TriplesOf(paths')
       /\ (pc' \in {"resolve", "rewrite", "done"} =>
             stats'.numAmbPaths = Cardinality(TriplesOf(paths')))
       /\ (pc # "read" => DOMAIN g_ambpath_contig' = DOMAIN g_ambpath_contig)
       /\ \A c \in DOMAIN g_ambpath_contig \cap DOMAIN g_ambpath_contig' :
            /\ calls'[c].search <= 1
            /\ calls'[c].align <= 1
            /\ calls'[c].oracle <= 1
            /\ (calls'[c].search # calls[c].search \/ calls'[c].align # calls[c].align
                  \/ g_ambpath_contig'[c] # g_ambpath_contig[c])
                 => /\ pc = "resolve"
                    /\ calls[c].search = 0
                    /\ calls[c].written = 0
                    /\ c = inOrder(DOMAIN g_ambpath_contig)[ambIt + 1]
       /\ (pc' \in {"rewrite", "done"} =>
             \A c \in DOMAIN g_ambpath_contig' :
                 calls'[c].search = 1 /\ calls'[c].written = 1)
       /\ (pc \in {"rewrite", "done"} => g_ambpath_contig' = g_ambpath_contig)]_vars

\* C5 witness: a finished run in which two paths, one of them twice, hold the same
\* triple, whose entry was resolved
C5_Witness ==
    /\ pc = "done"
    /\ Len(paths) = 2
    /\ TriplesOf(<<paths[1]>>) \cap TriplesOf(<<paths[2]>>) # {}
    /\ Len(paths[1]) + Len(paths[2]) > 6
    /\ \E c \in DOMAIN g_ambpath_contig : g_ambpath_contig[c] # <<>>

AllAmbInterior(path) == \A j \in 1..Len(path) : path[j].amb => IsInterior(path, j)

\* C6: the line written for an input path whose ambiguous nodes are all interior is
\* the path with each ambiguous node replaced in place by the interior nodes of its
\* registry resolution, or kept when the resolution is empty; a path without
\* ambiguous node is written unchanged, every path gets its line, in order.
C6_RewriteInPlace ==
    /\ \A n \in 1..Len(PathLinesOf(out)) :
          LET l == PathLinesOf(out)[n]
          IN  /\ l.id = n
              /\ n <= Len(paths)
              /\ AllAmbInterior(paths[n])
                    => l.path = Spliced(g_ambpath_contig, paths[n], Len(paths[n]))
              /\ (\A j \in 1..Len(paths[n]) : ~paths[n][j].amb) => l.path = paths[n]
    /\ pc = "done" => Len(PathLinesOf(out)) = Len(paths)
    /\ (pc = "rewrite" /\ Len(PathLinesOf(out)) < Len(paths)
          /\ AllAmbInterior(paths[Len(PathLinesOf(out)) + 1]))
         => ~rewritePath(g_ambpath_contig, paths[Len(PathLinesOf(out)) + 1],
                         isAmbPath[Len(PathLinesOf(out)) + 1]).abort

\* C6 witness: two paths that share a resolved triple are written with the same
\* replacement, which changed them
C6_Witness ==
    /\ pc = "done"
    /\ Len(paths) = 2
    /\ paths[1] # paths[2]
    /\ AllAmbInterior(paths[1]) /\ AllAmbInterior(paths[2])
    /\ \E c \in TriplesOf(<<paths[1]>>) \cap TriplesOf(<<paths[2]>>) :
          Len(g_ambpath_contig[c]) > 2
    /\ PathLinesOf(out)[1].path # paths[1]
    /\ PathLinesOf(out)[2].path # paths[2]

\* An ambiguous node is the first or the last node of the path
EdgeAmbiguous(path) == path[1].amb \/ path[Len(path)].amb

\* C7: a path whose first or last node is ambiguous is malformed input: the run
\* aborts when it has loaded it and writes no line for it.
C7_EdgeAmbiguousAborts ==
    /\ (pc # "read" /\ \E i \in 1..Len(paths) : EdgeAmbiguous(paths[i])) => pc = "abort"
    /\ \A n \in 1..Len(PathLinesOf(out)) : ~EdgeAmbiguous(paths[PathLinesOf(out)[n].id])

-----------------------------------------------------------------------------
(* Claims about alignPair and alignMulti *)

\* The two candidates have interior nodes, as many in one as in the other, and
\* merge to the same sequence
IdenticalSequences(solutions) ==
    LET fstSol == interior(solutions[1])
        sndSol == interior(solutions[2])
    IN  /\ fstSol # <<>>
        /\ sndSol # <<>>
        /\ Len(fstSol) = Len(sndSol)
        /\ ~mergePath(fstSol).abort
        /\ ~mergePath(sndSol).abort
        /\ mergePath(fstSol).seq = mergePath(sndSol).seq

\* The two interiors differ at exactly one position, where the nodes are each
\* other's reverse complement
OnePalindrome(solutions) ==
    LET fstSol == interior(solutions[1])
        sndSol == interior(solutions[2])
    IN  \E i \in 1..Len(fstSol) :
            /\ fstSol[i] # sndSol[i]
            /\ fstSol[i] = Complement(sndSol[i])
            /\ \A j \in (1..Len(fstSol)) \ {i} : fstSol[j] = sndSol[j]

AgreeFirst(solutions, p) ==
    \A i \in 1..Len(solutions) : \A j \in 1..p : solutions[i][j] = solutions[1][j]

AgreeLast(solutions, s) ==
    \A i \in 1..Len(solutions) : \A j \in 0..(s - 1) :
        solutions[i][Len(solutions[i]) - j] = solutions[1][Len(solutions[1]) - j]

Shortest(solutions) ==
    CHOOSE n \in {Len(solutions[i]) : i \in 1..Len(solutions)} :
        \A i \in 1..Len(solutions) : n <= Len(solutions[i])

\* C10: for three or more candidates longestPrefix is the largest p, at most the
\* shortest length, such that all candidates agree on their first p nodes,
\* longestSuffix the largest s, at most the shortest length less p, such that all
\* agree on their last s nodes; p + s exceeds no candidate's length and each core is
\* the nodes between them. [S,a,b,X,T], [S,a,c,X,T], [S,a,d,T] give the prefix
\* [S,a], the suffix [T] and the cores [b,X], [c,X], [d].
C10_PrefixSuffixFactoring ==
    (ret.fn = "alignMulti")
        => LET solutions == args.solutions
               p == ret.longestPrefix
               s == ret.longestSuffix
               m == Shortest(solutions)
           IN  /\ Len(solutions) >= 3
               /\ p \in 0..m
               /\ AgreeFirst(solutions, p)
               /\ \A q \in 0..m : AgreeFirst(solutions, q) => q <= p
               /\ s \in 0..(m - p)
               /\ AgreeLast(solutions, s)
               /\ \A q \in 0..(m - p) : AgreeLast(solutions, q) => q <= s
               /\ \A i \in 1..Len(solutions) :
                    /\ p + s <= Len(solutions[i])
                    /\ solutions[i] = SubSeq(solutions[1], 1, p) \o ret.cores[i]
                          \o SubSeq(solutions[1], Len(solutions[1]) - s + 1,
                                    Len(solutions[1]))
               /\ solutions = FactoringExample
                    => /\ SubSeq(solutions[1], 1, p) = <<nS, nA>>
                       /\ SubSeq(solutions[1], Len(solutions[1]) - s + 1,
                                 Len(solutions[1])) = <<nT>>
                       /\ ret.cores = << <<nB, nX>>, <<nC, nX>>, <<nD>> >>

\* C10 witness: the factoring of the example
C10_Witness ==
    /\ ret.fn = "alignMulti"
    /\ args.solutions = FactoringExample
    /\ ret.longestPrefix = 2
    /\ ret.longestSuffix = 1
    /\ ret.cores = << <<nB, nX>>, <<nC, nX>>, <<nD>> >>

-----------------------------------------------------------------------------
(* Claims about the length ratio, createConsensus, the graph and the counters *)

\* The candidate paths fillGap builds from the answer of the search
SolutionsOf(a) == [i \in 1..Len(a.found) |-> <<a.c.source>> \o a.found[i]]

\* shortest / longest is below the identity threshold
RatioBelowIdentity(lengths) ==
    \E i \in 1..Len(lengths), j \in 1..Len(lengths) :
        /\ \A n \in 1..Len(lengths) : lengths[i] <= lengths[n] /\ lengths[n] <= lengths[j]
        /\ lengths[i] * opt_identity.den < opt_identity.num * lengths[j]

\* Two candidates with interior nodes whose merged sequences differ and are of
\* too different lengths
PairPrefiltered(solutions) ==
    /\ Len(solutions) = 2
    /\ interior(solutions[1]) # <<>>
    /\ interior(solutions[2]) # <<>>
    /\ LET m1 == mergePath(interior(solutions[1]))
           m2 == mergePath(interior(solutions[2]))
       IN  /\ ~m1.abort
           /\ ~m2.abort
           /\ m1.seq # m2.seq
           /\ RatioBelowIdentity(<<Len(m1.seq), Len(m2.seq)>>)

\* Three or more candidates whose sequences between the common prefix and the
\* common suffix are of too different lengths
MultiPrefiltered(solutions) ==
    /\ Len(solutions) >= 3
    /\ LET p == longestPrefixOf(solutions)
           s == longestSuffixOf(solutions)
       IN  /\ p > 0
           /\ s > 0
           /\ \A i \in 1..Len(solutions) : ~ambSeq(solutions, i, p, s).abort
           /\ RatioBelowIdentity([i \in 1..Len(solutions) |->
                                    Len(ambSeq(solutions, i, p, s).seq)])

\* C11: when the sequences to align differ and shortest / longest length is below
\* the identity threshold, alignPair and alignMulti return the empty path without
\* consulting the alignment oracle, no contig is synthesized and fillGap counts the
\* gap as not merged.
C11_LengthRatioPrefilter ==
    (/\ ret.fn = "fillGap"
     /\ classify(SolutionsOf(args), args.numVisited) = "align"
     /\ (PairPrefiltered(SolutionsOf(args)) \/ MultiPrefiltered(SolutionsOf(args))))
        => /\ ~ret.abort
           /\ ret.aligned = 1
           /\ ret.oracle = 0
           /\ ret.consensus = <<>>
           /\ ret.nvs = <<>>
           /\ ret.recs = <<>>
           /\ ret.marked = <<>>
           /\ ret.counter = "notMerged"

\* C11 witness: three candidates rejected on the lengths of their sequences
C11_Witness ==
    /\ ret.fn = "fillGap"
    /\ classify(SolutionsOf(args), args.numVisited) = "align"
    /\ MultiPrefiltered(SolutionsOf(args))
    /\ ret.oracle = 0
    /\ ret.counter = "notMerged"

SameIgnoringCase(x, y) == x = y \/ tolower(x) = y \/ x = tolower(y)

IsN(x) == x \in {"N", "n"}

\* C12: the consensus of two sequences of one length is made base by base: a's
\* base where the two are equal ignoring case, the other base where one is N, and
\* the empty result once two different bases other than N meet; a base of the
\* result is lowercase exactly if one of the two bases is; the result is as long as
\* the sequences and the same for (a, b) and (b, a).
C12_ConsensusPerBase ==
    (ret.fn = "createConsensus")
        => LET a == args.a
               b == args.b
               conflict == \E i \in 1..Len(a) :
                              /\ ~SameIgnoringCase(a[i], b[i])
                              /\ ~IsN(a[i])
                              /\ ~IsN(b[i])
           IN  /\ ret.swapped = ret.seq
               /\ IF conflict THEN ret.seq = <<>>
                  ELSE /\ Len(ret.seq) = Len(a)
                       /\ \A i \in 1..Len(a) :
                            LET base == IF SameIgnoringCase(a[i], b[i]) THEN a[i]
                                        ELSE IF IsN(a[i]) THEN b[i] ELSE a[i]
                            IN  /\ SameIgnoringCase(ret.seq[i], base)
                                /\ (ret.seq[i] \in Lower) <=>
                                      (a[i] \in Lower \/ b[i] \in Lower)

\* C12 witness: a consensus that takes the other base for an N and is lowercase
\* where one of the two bases is
C12_Witness ==
    /\ ret.fn = "createConsensus"
    /\ ret.seq # <<>>
    /\ \E i \in 1..Len(args.a) :
          /\ IsN(args.a[i])
          /\ ~IsN(args.b[i])
          /\ args.b[i] \notin Lower
          /\ ret.seq[i] = tolower(args.b[i])
    /\ \E i \in 1..Len(args.a) : ret.seq[i] \notin Lower

\* C13: the graph is not changed while a gap is resolved: a synthesized contig
\* appends one record to g_newVertices, and only when every registry entry is
\* resolved are the records applied, each adding one vertex and two edges; the ends
\* a record holds are the nodes just before and just after the new contig in the
\* resolution stored for its gap.
C13_GraphChangedLast ==
    [][/\ graphAdded' # graphAdded
            => /\ pc = "rewrite"
               /\ pc' = "done"
               /\ \A c \in DOMAIN g_ambpath_contig : calls[c].written = 1
               /\ Len(graphAdded'.vertices) = Len(g_newVertices)
               /\ Len(graphAdded'.edges) = 2 * Len(g_newVertices)
               /\ \A i \in 1..Len(g_newVertices) :
                    /\ graphAdded'.vertices[i] = g_newVertices[i].u
                    /\ graphAdded'.edges[2 * i - 1] = <<g_newVertices[i].t, g_newVertices[i].u>>
                    /\ graphAdded'.edges[2 * i] = <<g_newVertices[i].u, g_newVertices[i].v>>
       /\ g_newVertices' # g_newVertices => pc = "resolve" /\ pc' = "resolve"
       /\ Len(g_newVertices') = Len(fa')
       /\ Len(g_newVertices') - Len(g_newVertices) \in {0, 1}
       /\ SubSeq(g_newVertices', 1, Len(g_newVertices)) = g_newVertices
       /\ \A i \in 1..Len(g_newVertices') :
            LET nv == g_newVertices'[i]
            IN  /\ nv.u = Contig(fa'[i].id, FALSE)
                /\ \A j \in 1..Len(g_newVertices') : g_newVertices'[j].u = nv.u => j = i
                /\ \E c \in DOMAIN g_ambpath_contig' :
                      LET path == g_ambpath_contig'[c]
                      IN  \E n \in 2..(Len(path) - 1) :
                            /\ path[n] = nv.u
                            /\ path[n - 1] = nv.t
                            /\ path[n + 1] = nv.v]_vars

\* C13 witness: a finished run that added two contigs to the graph, one of them
\* after a common prefix of two nodes
C13_Witness ==
    /\ pc = "done"
    /\ Len(graphAdded.vertices) = 2
    /\ Len(graphAdded.edges) = 4
    /\ \E i \in 1..2 : \E c \in DOMAIN g_ambpath_contig :
          /\ Len(g_ambpath_contig[c]) = 4
          /\ g_ambpath_contig[c][3] = g_newVertices[i].u
          /\ g_newVertices[i].t # c.source

\* The number of the resolved gaps of a class
GapsWhere(P(_)) == Cardinality({c \in ResolvedGaps : P(c)})

\* C14: every gap resolution increments exactly one of the five counters, chosen
\* in the order too complex, too many candidates, no candidate, one candidate,
\* outcome of the alignment; after the resolution loop the five counters sum to
\* the number of registry entries and the merged counter is the number of entries
\* that hold a non-empty resolution.
C14_CountersPartitionGaps ==
    (pc \in {"rewrite", "done"})
        => /\ ResolvedGaps = DOMAIN g_ambpath_contig
           /\ stats.numAmbPaths = Cardinality(DOMAIN g_ambpath_contig)
           /\ stats.numMerged + stats.numNoSolutions + stats.numTooManySolutions
                + stats.tooComplex + stats.notMerged
                  = Cardinality(DOMAIN g_ambpath_contig)
           /\ stats.tooComplex = GapsWhere(LAMBDA c : calls[c].numVisited >= maxCost)
           /\ stats.numTooManySolutions
                = GapsWhere(LAMBDA c : /\ calls[c].numVisited < maxCost
                                       /\ calls[c].found > opt_numBranches)
           /\ stats.numNoSolutions
                = GapsWhere(LAMBDA c : /\ calls[c].numVisited < maxCost
                                       /\ calls[c].found <= opt_numBranches
                                       /\ calls[c].found = 0)
           /\ stats.numMerged = GapsWhere(LAMBDA c : g_ambpath_contig[c] # <<>>)

\* C15: for three or more candidates, no two of them equal, that all start with
\* the source and all end with the destination, the assertions of alignMulti hold:
\* the common prefix and the common suffix have one node at least and together no
\* more nodes than any candidate.
C15_MultiAssertionsHold ==
    (/\ ret.fn = "alignMulti"
     /\ Len(args.solutions) >= 3
     /\ \A i, j \in 1..Len(args.solutions) :
          /\ i # j => args.solutions[i] # args.solutions[j]
          /\ args.solutions[i][1] = args.solutions[j][1]
          /\ args.solutions[i][Len(args.solutions[i])]
                = args.solutions[j][Len(args.solutions[j])])
        => /\ ret.longestPrefix >= 1
           /\ ret.longestSuffix >= 1
           /\ \A i \in 1..Len(args.solutions) :
                ret.longestPrefix + ret.longestSuffix <= Len(args.solutions[i])

====
